---- MODULE Spec2Model ----
(***************************************************************************)
(* A model of the derivation layer of market-implications:                 *)
(*   src/metrics/calculations.py  process_market_data,                     *)
(*                                calculate_rate_probabilities             *)
(*   src/metrics/credit.py        calculate_default_probabilities          *)
(* Numbers that the program holds as floats are modelled as exact          *)
(* rationals <<n, d>> (d > 0, lowest terms); the non-finite floats that a  *)
(* numpy division by zero produces are modelled as tagged values.          *)
(***************************************************************************)
EXTENDS Integers, Sequences, FiniteSets, TLC

VARIABLES pc, data_json, processed, rate_probabilities, bond_table, credit_data, jgb_curve

vars == <<pc, data_json, processed, rate_probabilities, bond_table, credit_data,
          jgb_curve>>

----------------------------------------------------------------------------
(* Bounds of the model *)

\* longest `rates` list of a snapshot
MaxRates == 3

\* most rows of a bond table
MaxBonds == 4

----------------------------------------------------------------------------
(* Exact rational arithmetic standing for the program's float arithmetic *)

Abs(x) == IF x < 0 THEN -x ELSE x

RECURSIVE GCD(_, _)
GCD(a, b) == IF b = 0 THEN a ELSE GCD(b, a % b)

Rat(n, d) ==
    LET s == IF d < 0 THEN -1 ELSE 1
        g == GCD(Abs(n), Abs(d))
    IN  <<(s * n) \div g, (s * d) \div g>>

RInt(n) == <<n, 1>>
RAdd(a, b) == Rat(a[1] * b[2] + b[1] * a[2], a[2] * b[2])
RSub(a, b) == Rat(a[1] * b[2] - b[1] * a[2], a[2] * b[2])
RMul(a, b) == Rat(a[1] * b[1], a[2] * b[2])
RDiv(a, b) == Rat(a[1] * b[2], a[2] * b[1])
RLt(a, b) == a[1] * b[2] < b[1] * a[2]
RLe(a, b) == a[1] * b[2] <= b[1] * a[2]
RMin(a, b) == IF RLe(a, b) THEN a ELSE b
RMax(a, b) == IF RLe(a, b) THEN b ELSE a
RAbs(a) == <<Abs(a[1]), a[2]>>

\* the integer nearest to n/d (d > 0), a tie going to the even neighbour
RoundHalfEven(n, d) ==
    LET q == n \div d
        r == n % d
    IN  IF 2 * r < d THEN q
        ELSE IF 2 * r > d THEN q + 1
        ELSE IF q % 2 = 0 THEN q ELSE q + 1

Pow10(k) == IF k = 0 THEN 1 ELSE IF k = 1 THEN 10 ELSE IF k = 2 THEN 100 ELSE 1000

\* round(x, ndigits) on a finite value: the nearest multiple of 10^-ndigits, an
\* exact decimal tie going to the even neighbour; the binary error of the float
\* is not modelled
Round(x, ndigits) ==
    Rat(RoundHalfEven(x[1] * Pow10(ndigits), x[2]), Pow10(ndigits))

\* floats: finite values and the results of a numpy division by zero
Fin(x) == [fk |-> "fin", v |-> x]
PosInf == [fk |-> "inf", v |-> <<0, 1>>]
NegInf == [fk |-> "-inf", v |-> <<0, 1>>]
NaN == [fk |-> "nan", v |-> <<0, 1>>]

\* numpy float division: x / 0 is +-inf or nan (with a RuntimeWarning), not an exception
FloatDiv(num, den) ==
    IF den[1] # 0 THEN Fin(RDiv(num, den))
    ELSE IF num[1] > 0 THEN PosInf
    ELSE IF num[1] < 0 THEN NegInf
    ELSE NaN

\* round(x, ndigits) on a float: inf and nan are returned unchanged
FloatRound(x, ndigits) == IF x.fk = "fin" THEN Fin(Round(x.v, ndigits)) ELSE x

----------------------------------------------------------------------------
(* Calendar arithmetic: datetime.strptime, pd.DateOffset, timedelta.days *)

Date(y, m, d) == [y |-> y, m |-> m, d |-> d]

IsLeap(y) == (y % 4 = 0 /\ y % 100 # 0) \/ y % 400 = 0

DaysInMonth(y, m) ==
    IF m = 2 THEN (IF IsLeap(y) THEN 29 ELSE 28)
    ELSE IF m \in {4, 6, 9, 11} THEN 30 ELSE 31

RECURSIVE DaysBeforeMonth(_, _)
DaysBeforeMonth(y, m) ==
    IF m = 1 THEN 0 ELSE DaysBeforeMonth(y, m - 1) + DaysInMonth(y, m - 1)

\* proleptic Gregorian ordinal of a date (date.toordinal)
Ordinal(dt) ==
    LET y == dt.y - 1
    IN  y * 365 + (y \div 4) - (y \div 100) + (y \div 400)
        + DaysBeforeMonth(dt.y, dt.m) + dt.d

\* dt + pd.DateOffset(months=n): the day is clamped to the end of the target month
AddMonths(dt, n) ==
    LET k == (dt.m - 1) + n
        y == dt.y + (k \div 12)
        m == (k % 12) + 1
        dim == DaysInMonth(y, m)
    IN  Date(y, m, IF dt.d > dim THEN dim ELSE dt.d)

\* dt + pd.DateOffset(years=n)
AddYears(dt, n) == AddMonths(dt, 12 * n)

----------------------------------------------------------------------------
(* Strings: a tenor label is the sequence of its characters *)

DigitChars == {"0", "1", "2", "3", "4", "5", "6", "7", "8", "9"}

DigitVal(c) ==
    CASE c = "0" -> 0 [] c = "1" -> 1 [] c = "2" -> 2 [] c = "3" -> 3
      [] c = "4" -> 4 [] c = "5" -> 5 [] c = "6" -> 6 [] c = "7" -> 7
      [] c = "8" -> 8 [] OTHER -> 9

\* str.upper on the letters the labels use
UpperChar(c) ==
    CASE c = "d" -> "D" [] c = "w" -> "W" [] c = "m" -> "M" [] c = "y" -> "Y"
      [] OTHER -> c

Upper(t) == [i \in 1..Len(t) |-> UpperChar(t[i])]

\* "c" in t
Contains(t, c) == \E i \in 1..Len(t) : t[i] = c

\* t.replace(c, "")
Remove(t, c) ==
    LET keep(x) == x # c
    IN  SelectSeq(t, keep)

RECURSIVE NumberVal(_)
NumberVal(s) ==
    IF s = <<>> THEN 0
    ELSE 10 * NumberVal(SubSeq(s, 1, Len(s) - 1)) + DigitVal(s[Len(s)])

\* float(s) and int(s) on a string of digits and letters: a non-empty digit
\* string converts, anything else raises ValueError
ParseNumber(s) ==
    IF Len(s) > 0 /\ \A i \in 1..Len(s) : s[i] \in DigitChars
    THEN [exc |-> "none", v |-> NumberVal(s)]
    ELSE [exc |-> "ValueError", v |-> 0]

----------------------------------------------------------------------------
(* src/metrics/calculations.py *)

None == [kind |-> "None"]
Raise(e) == [kind |-> "raise", exc |-> e]

\* the date string that strptime rejects
Unparseable == Date(0, 0, 0)

\* datetime.strptime succeeds on the string
Parses(dt) == dt.y >= 1 /\ dt.m \in 1..12 /\ dt.d \in 1..DaysInMonth(dt.y, dt.m)

\* a datetime: a date, and whether it carries a time of day after midnight
DateTime(dt, t) == [date |-> dt, time |-> t]

\* (a - b).days: whole days, rounded down
DeltaDays(a, b) ==
    Ordinal(a.date) - Ordinal(b.date)
    - (IF b.time /\ ~a.time THEN 1 ELSE 0)

\* not data_json: the snapshot is None or an empty dict
Falsy(d) == d.keys = {}

\* lines 19-23: the source date, or the clock reading when it is absent or unparseable
SourceDate(d, now) ==
    IF "source_date" \in d.keys /\ Parses(d.source_date)
    THEN DateTime(d.source_date, FALSE)
    ELSE now

\* lines 26-42
tenor_to_days(tenor, source_date) ==
    LET t == Upper(tenor)
        offset(months) ==
            Ordinal(AddMonths(source_date.date, months)) - Ordinal(source_date.date)
    IN  IF Contains(t, "D") THEN ParseNumber(Remove(t, "D"))
        ELSE IF Contains(t, "W") THEN
            LET p == ParseNumber(Remove(t, "W"))
            IN  [exc |-> p.exc, v |-> p.v * 7]
        ELSE IF Contains(t, "M") THEN
            LET p == ParseNumber(Remove(t, "M"))
            IN  [exc |-> p.exc, v |-> IF p.exc = "none" THEN offset(p.v) ELSE 0]
        ELSE IF Contains(t, "Y") THEN
            LET p == ParseNumber(Remove(t, "Y"))
            IN  [exc |-> p.exc,
                 v |-> IF p.exc = "none"
                       THEN Ordinal(AddYears(source_date.date, p.v))
                            - Ordinal(source_date.date)
                       ELSE 0]
        ELSE [exc |-> "none", v |-> 0]

\* lines 116-126
tenor_to_years(tenor) ==
    LET t == Upper(tenor)
        conv(c, per) ==
            LET p == ParseNumber(Remove(t, c))
            IN  [exc |-> p.exc, v |-> Rat(p.v, per)]
    IN  IF Contains(t, "D") THEN conv("D", 365)
        ELSE IF Contains(t, "W") THEN conv("W", 52)
        ELSE IF Contains(t, "M") THEN conv("M", 12)
        ELSE IF Contains(t, "Y") THEN conv("Y", 1)
        ELSE [exc |-> "none", v |-> RInt(0)]

\* the row orders DataFrame.sort_values(key) can produce: ascending by key; the
\* default sort kind is not stable, so rows with equal keys come in any order
SortOrders(keys) ==
    LET n == Len(keys)
    IN  {p \in [1..n -> 1..n] :
            /\ \A i, j \in 1..n : i # j => p[i] # p[j]
            /\ \A i, j \in 1..n : i < j => RLe(keys[p[i]], keys[p[j]])}

\* df.sort_values(key) leaving the rows in their order (a faulty variant of
\* sort_values)
sort_values_unsorted(df, keys) == {df}

\* df.sort_values(key): the frames the sort can return, `keys` being the key column
sort_values(df, keys) ==
    {[i \in 1..Len(df) |-> df[order[i]]] : order \in SortOrders(keys)}

\* lines 62-67 with r_pre and r_post exchanged in line 66 (a faulty variant of
\* calculate_implied_rate)
calculate_implied_rate_swapped(df, days_pre, r_pre, days_to_meeting) ==
    LET at_or_after(row) == row.days >= days_to_meeting
        sel == SelectSeq(df, at_or_after)
    IN  IF sel = <<>> THEN [exc |-> "IndexError", v |-> NaN]
        ELSE
            LET row_post == sel[1]
                r_post == row_post.rate
                days_post == row_post.days - days_pre
            IN  [exc |-> "none",
                 v |-> FloatDiv(RSub(RMul(r_pre, RInt(days_pre + days_post)),
                                     RMul(r_post, RInt(days_pre))),
                                RInt(days_post))]

\* lines 62-67 with .iloc[-1] in line 63: the last row at or after the meeting
\* (a faulty variant of calculate_implied_rate)
calculate_implied_rate_last_row(df, days_pre, r_pre, days_to_meeting) ==
    LET at_or_after(row) == row.days >= days_to_meeting
        sel == SelectSeq(df, at_or_after)
    IN  IF sel = <<>> THEN [exc |-> "IndexError", v |-> NaN]
        ELSE
            LET row_post == sel[Len(sel)]
                r_post == row_post.rate
                days_post == row_post.days - days_pre
            IN  [exc |-> "none",
                 v |-> FloatDiv(RSub(RMul(r_post, RInt(days_pre + days_post)),
                                     RMul(r_pre, RInt(days_pre))),
                                RInt(days_post))]

\* lines 62-67; the exception of .iloc[0] on an empty selection is IndexError
calculate_implied_rate(df, days_pre, r_pre, days_to_meeting) ==
    LET at_or_after(row) == row.days >= days_to_meeting
        sel == SelectSeq(df, at_or_after)
    IN  IF sel = <<>> THEN [exc |-> "IndexError", v |-> NaN]
        ELSE
            LET row_post == sel[1]
                r_post == row_post.rate
                days_post == row_post.days - days_pre
            IN  [exc |-> "none",
                 v |-> FloatDiv(RSub(RMul(r_post, RInt(days_pre + days_post)),
                                     RMul(r_pre, RInt(days_pre))),
                                RInt(days_post))]

\* line 71
probability_of_hike(implied_rate, current_rate) ==
    IF implied_rate.fk = "fin"
    THEN Fin(RDiv(RSub(implied_rate.v, current_rate), Rat(25, 100)))
    ELSE implied_rate

\* x > 0 and x < 0 on a float (both false for nan)
FloatPos(x) == x.fk = "inf" \/ (x.fk = "fin" /\ x.v[1] > 0)
FloatNeg(x) == x.fk = "-inf" \/ (x.fk = "fin" /\ x.v[1] < 0)

\* abs(x) * 100, the cap at 100 left out (a faulty variant of CappedPercent)
CappedPercent_uncapped(x) ==
    IF x.fk = "fin" THEN RMul(RAbs(x.v), RInt(100)) ELSE RInt(100)

\* min(abs(x) * 100, 100)
CappedPercent(x) ==
    IF x.fk = "fin" THEN RMin(RMul(RAbs(x.v), RInt(100)), RInt(100)) ELSE RInt(100)

\* lines 78-92 with the cut branch leaving prob_no_change at 100 (a faulty
\* variant of distribution)
distribution_cut_not_deducted(p) ==
    IF FloatPos(p) THEN
        [prob_no_change |-> RMax(RSub(RInt(100), CappedPercent(p)), RInt(0)),
         prob_hike_25bps |-> CappedPercent(p),
         prob_cut_25bps |-> RInt(0)]
    ELSE [prob_no_change |-> RInt(100),
          prob_hike_25bps |-> RInt(0),
          prob_cut_25bps |-> IF FloatNeg(p) THEN CappedPercent(p) ELSE RInt(0)]

\* lines 78-92
distribution(p) ==
    IF FloatPos(p) THEN
        LET prob_hike_25bps == CappedPercent(p)
        IN  [prob_no_change |-> RMax(RSub(RInt(100), prob_hike_25bps), RInt(0)),
             prob_hike_25bps |-> prob_hike_25bps,
             prob_cut_25bps |-> RInt(0)]
    ELSE IF FloatNeg(p) THEN
        LET prob_cut_25bps == CappedPercent(p)
        IN  [prob_no_change |-> RMax(RSub(RInt(100), prob_cut_25bps), RInt(0)),
             prob_hike_25bps |-> RInt(0),
             prob_cut_25bps |-> prob_cut_25bps]
    ELSE [prob_no_change |-> RInt(100),
          prob_hike_25bps |-> RInt(0),
          prob_cut_25bps |-> RInt(0)]

\* lines 94-104
probabilities(dist) ==
    [no_change |-> Round(dist.prob_no_change, 1),
     hike_25bps |-> Round(dist.prob_hike_25bps, 1),
     cut_25bps |-> Round(dist.prob_cut_25bps, 1)]

\* line 44: the days column, defined when every label converts
DaysColumn(d, now) ==
    [i \in 1..Len(d.rates) |-> tenor_to_days(d.rates[i].tenor, SourceDate(d, now))]

\* line 12: not data_json["boj_meetings"], never true (a faulty variant of NoMeetings)
NoMeetings_unchecked(d) == FALSE

\* line 12: not data_json["boj_meetings"]
NoMeetings(d) == d.boj_meetings = <<>>

\* lines 16-45: the frames the sort of line 45 can leave in df ({<<>>} when the
\* frame is never built)
DaysFrames(d, now) ==
    LET days == DaysColumn(d, now)
    IN  IF "rates" \in d.keys /\ \A i \in 1..Len(d.rates) : days[i].exc = "none"
        THEN sort_values([i \in 1..Len(d.rates) |->
                            [tenor |-> d.rates[i].tenor,
                             rate |-> d.rates[i].rate,
                             days |-> days[i].v]],
                         [i \in 1..Len(d.rates) |-> RInt(days[i].v)])
        ELSE {<<>>}

\* lines 7-104; `df` is the frame the sort of line 45 produced.  The record
\* returned carries, as `frame`, the locals of the call at its return.
calculate_rate_probabilities(d, now, df) ==
    IF Falsy(d) \/ "rates" \notin d.keys \/ "boj_meetings" \notin d.keys THEN None
    ELSE IF NoMeetings(d) THEN None
    ELSE IF d.rates = <<>> THEN Raise("KeyError")
    ELSE IF \E i \in 1..Len(d.rates) : DaysColumn(d, now)[i].exc # "none"
    THEN Raise("ValueError")
    ELSE
        LET source_date == SourceDate(d, now)
            is_1d(row) == row.tenor = <<"1", "D">>
            overnight == SelectSeq(df, is_1d)
            current_rate == IF Len(overnight) > 0 THEN overnight[1].rate ELSE df[1].rate
            next_meeting_str == d.boj_meetings[1]
        IN  IF d.boj_meetings = <<>> THEN Raise("IndexError")
            ELSE IF ~Parses(next_meeting_str) THEN Raise("ValueError")
            ELSE
                LET next_meeting == DateTime(next_meeting_str, FALSE)
                    days_to_meeting == DeltaDays(next_meeting, source_date)
                    implied == calculate_implied_rate(df, days_to_meeting,
                                                      current_rate, days_to_meeting)
                IN  IF implied.exc # "none" THEN Raise(implied.exc)
                    ELSE
                        LET implied_rate == implied.v
                            p == probability_of_hike(implied_rate, current_rate)
                            dist == distribution(p)
                        IN  [kind |-> "dict",
                             next_meeting_date |-> next_meeting_str,
                             days_to_meeting |-> days_to_meeting,
                             current_rate |-> Round(current_rate, 3),
                             implied_rate |-> FloatRound(implied_rate, 3),
                             probabilities |-> probabilities(dist),
                             frame |-> [df |-> df,
                                        current_rate |-> current_rate,
                                        implied_rate |-> implied_rate,
                                        probability_of_hike |-> p,
                                        prob_no_change |-> dist.prob_no_change,
                                        prob_hike_25bps |-> dist.prob_hike_25bps,
                                        prob_cut_25bps |-> dist.prob_cut_25bps]]

\* line 128: the years column
YearsColumn(d) == [i \in 1..Len(d.rates) |-> tenor_to_years(d.rates[i].tenor)]

\* lines 113-129: the frames the sort of line 129 can leave in df
YearsFrames(d) ==
    LET years == YearsColumn(d)
    IN  IF "rates" \in d.keys /\ \A i \in 1..Len(d.rates) : years[i].exc = "none"
        THEN sort_values([i \in 1..Len(d.rates) |->
                            [tenor |-> d.rates[i].tenor,
                             rate |-> d.rates[i].rate,
                             years |-> years[i].v]],
                         [i \in 1..Len(d.rates) |-> years[i].v])
        ELSE {<<>>}

\* lines 107-141; `df` is the frame the sort of line 129 produced, `days_df` the
\* one the sort of line 45 produced in the call of line 132
process_market_data(d, now, df, days_df) ==
    IF Falsy(d) \/ "rates" \notin d.keys THEN None
    ELSE IF d.rates = <<>> THEN Raise("KeyError")
    ELSE IF \E i \in 1..Len(d.rates) : YearsColumn(d)[i].exc # "none"
    THEN Raise("ValueError")
    ELSE
        LET probs == calculate_rate_probabilities(d, now, days_df)
        IN  IF probs.kind = "raise" THEN probs
            ELSE [kind |-> "dict",
                  curve |-> df,
                  latest_date |-> IF "source_date" \in d.keys
                                  THEN d.source_date ELSE Unparseable,
                  rate_probabilities |-> probs]

----------------------------------------------------------------------------
(* src/metrics/credit.py *)

\* Characters outside ASCII are written as tokens: "<koku>" "<sai>" spell the
\* two characters of the government-bond name, "<retsu>" is the subordinated
\* suffix of line 32, "<chouon>" the long-vowel mark of line 36.
Whitespace == {" "}
AsciiAlnum == DigitChars \cup {"A", "B", "C"}

\* code-point order of the characters the names use
CharRank(c) ==
    CASE c = " " -> 0 [] c = "-" -> 1 [] c \in DigitChars -> 2 + DigitVal(c)
      [] c = "A" -> 20 [] c = "B" -> 21 [] c = "C" -> 22
      [] c = "<chouon>" -> 30 [] c = "<retsu>" -> 31 [] OTHER -> 40

\* a < b on strings
RECURSIVE StrLt(_, _)
StrLt(a, b) ==
    IF b = <<>> THEN FALSE
    ELSE IF a = <<>> THEN TRUE
    ELSE IF CharRank(a[1]) # CharRank(b[1]) THEN CharRank(a[1]) < CharRank(b[1])
    ELSE StrLt(Tail(a), Tail(b))

\* pat occurs in s
Occurs(pat, s) ==
    \E k \in 0..(Len(s) - Len(pat)) : \A i \in 1..Len(pat) : s[k + i] = pat[i]

RECURSIVE StripTrailing(_, _)
StripTrailing(s, chars) ==
    IF s # <<>> /\ s[Len(s)] \in chars
    THEN StripTrailing(SubSeq(s, 1, Len(s) - 1), chars)
    ELSE s

RECURSIVE StripLeading(_, _)
StripLeading(s, chars) ==
    IF s # <<>> /\ s[1] \in chars THEN StripLeading(Tail(s), chars) ELSE s

\* unicodedata.normalize("NFKC", .) on one character
NFKC(c) == IF c = "<fullwidth A>" THEN "A" ELSE c

\* lines 23-40, for a name that is a string
extract_issuer(name) ==
    LET digits_off ==
            IF name # <<>> /\ name[Len(name)] \in DigitChars
            THEN StripTrailing(StripTrailing(name, DigitChars), Whitespace)
            ELSE name
        dashed == [i \in 1..Len(digits_off) |->
                      IF digits_off[i] = "-" /\ i > 1 /\ digits_off[i - 1] \notin AsciiAlnum
                      THEN "<chouon>" ELSE digits_off[i]]
        suffix_off ==
            IF dashed # <<>> /\ dashed[Len(dashed)] = "<retsu>"
            THEN SubSeq(dashed, 1, Len(dashed) - 1)
            ELSE dashed
        stripped == StripLeading(StripTrailing(suffix_off, Whitespace), Whitespace)
    IN  [i \in 1..Len(stripped) |-> NFKC(stripped[i])]

\* lines 11-12
RECOVERY_RATE == Rat(10, 100)
LGD == RSub(RInt(1), RECOVERY_RATE)

\* lines 15-20: the timestamp of a YYYYMMDD field, NaT when it is no date
parse_ymd_int(x) == [nat |-> ~Parses(x), date |-> x]

\* lines 223-232: days to maturity over 365, NaN when a date is missing
years_to_maturity(row) ==
    LET trade == parse_ymd_int(row.trade_date)
        maturity == parse_ymd_int(row.maturity)
    IN  IF trade.nat \/ maturity.nat THEN NaN
        ELSE Fin(Rat(Ordinal(maturity.date) - Ordinal(trade.date), 365))

\* lines 235-237: a yield that is no number, or is 999 or more, is missing
clean_yield(y) ==
    IF y.fk = "fin" /\ ~RLe(RInt(999), y.v) THEN y ELSE NaN

\* lines 217-237: the table with the derived columns
Preprocess(rows) ==
    [i \in 1..Len(rows) |->
        [name |-> rows[i].name,
         category |-> rows[i].category,
         years_to_maturity |-> years_to_maturity(rows[i]),
         yield |-> clean_yield(rows[i].yield)]]

GovName == <<"<koku>", "<sai>">>
TreasuryBillName == <<"<koku>", "<ko>", "<tan>", "<ki>", "<shou>", "<ken>">>

\* lines 245-246
gov_mask(row) ==
    /\ Occurs(TreasuryBillName, row.name) \/ Occurs(GovName, row.name)
    /\ row.yield.fk = "fin"
    /\ row.years_to_maturity.fk = "fin"

\* lines 268-273
corp_mask(row) ==
    /\ row.category = 40
    /\ row.yield.fk = "fin"
    /\ row.years_to_maturity.fk = "fin"
    /\ RLt(RInt(0), row.years_to_maturity.v)

RECURSIVE Sum(_)
Sum(xs) == IF xs = <<>> THEN RInt(0) ELSE RAdd(xs[1], Sum(Tail(xs)))

\* Series.mean
Mean(xs) == RDiv(Sum(xs), RInt(Len(xs)))

\* the elements of a set of rationals in ascending order
RECURSIVE Ascending(_)
Ascending(S) ==
    IF S = {} THEN <<>>
    ELSE LET least == CHOOSE x \in S : \A y \in S : RLe(x, y)
         IN  <<least>> \o Ascending(S \ {least})

\* lines 252-258: one point per distinct maturity, the mean yield of its bonds,
\* ascending in maturity
gov_curve(gov) ==
    LET T_points == Ascending({gov[i].years_to_maturity.v : i \in 1..Len(gov)})
        yields_at(T) ==
            LET in_bucket(row) == row.years_to_maturity.v = T
                bucket == SelectSeq(gov, in_bucket)
            IN  [i \in 1..Len(bucket) |-> bucket[i].yield.v]
    IN  [i \in 1..Len(T_points) |-> [T |-> T_points[i], y |-> Mean(yields_at(T_points[i]))]]

\* line 260 with the threshold at 1 (a faulty variant of NotEnoughPoints)
NotEnoughPoints_one(curve) == Len(curve) < 1

\* line 260
NotEnoughPoints(curve) == Len(curve) < 2

\* np.interp with the first and the last segment continued beyond the points
\* (a faulty variant of interp)
interp_extrapolated(x, curve) ==
    LET n == Len(curve)
        j == IF RLe(x, curve[1].T) THEN 1
             ELSE IF RLe(curve[n].T, x) THEN n - 1
             ELSE CHOOSE k \in 1..(n - 1) : RLe(curve[k].T, x) /\ RLt(x, curve[k + 1].T)
        slope == RDiv(RSub(curve[j + 1].y, curve[j].y),
                      RSub(curve[j + 1].T, curve[j].T))
    IN  RAdd(curve[j].y, RMul(slope, RSub(x, curve[j].T)))

\* np.interp(x, T_points, y_points): linear between the points, the first or
\* last yield outside them
interp(x, curve) ==
    LET n == Len(curve)
    IN  IF RLe(x, curve[1].T) THEN curve[1].y
        ELSE IF RLe(curve[n].T, x) THEN curve[n].y
        ELSE
            LET j == CHOOSE k \in 1..(n - 1) : RLe(curve[k].T, x) /\ RLt(x, curve[k + 1].T)
                slope == RDiv(RSub(curve[j + 1].y, curve[j].y),
                              RSub(curve[j + 1].T, curve[j].T))
            IN  RAdd(curve[j].y, RMul(slope, RSub(x, curve[j].T)))

\* lines 281-290: the corporate rows with issuer and spread
WithSpread(corp, curve) ==
    [i \in 1..Len(corp) |->
        LET rf_yield == interp(corp[i].years_to_maturity.v, curve)
            spread_pct == RSub(corp[i].yield.v, rf_yield)
        IN  [issuer |-> extract_issuer(corp[i].name),
             years_to_maturity |-> corp[i].years_to_maturity.v,
             rf_yield |-> rf_yield,
             spread_dec |-> RDiv(spread_pct, RInt(100))]]

\* the strings of a set in ascending order (the group order of groupby)
RECURSIVE SortedKeys(_)
SortedKeys(S) ==
    IF S = {} THEN <<>>
    ELSE LET least == CHOOSE x \in S : \A y \in S \ {x} : StrLt(x, y)
         IN  <<least>> \o SortedKeys(S \ {least})

\* line 310 without the floor at 0 (a faulty variant of hazard_rate)
hazard_rate_unclipped(avg_spread_dec) == RDiv(avg_spread_dec, LGD)

\* line 310
hazard_rate(avg_spread_dec) == RMax(RDiv(avg_spread_dec, LGD), RInt(0))

\* lines 298-310: one row per issuer, in ascending order of the issuer
issuer_stats(corp) ==
    LET keys == SortedKeys({corp[i].issuer : i \in 1..Len(corp)})
    IN  [k \in 1..Len(keys) |->
            LET of_issuer(row) == row.issuer = keys[k]
                group == SelectSeq(corp, of_issuer)
                avg_spread_dec == Mean([i \in 1..Len(group) |-> group[i].spread_dec])
            IN  [issuer |-> keys[k],
                 n_bonds |-> Len(group),
                 avg_spread_dec |-> avg_spread_dec,
                 avg_years |-> Mean([i \in 1..Len(group) |-> group[i].years_to_maturity]),
                 lambda |-> hazard_rate(avg_spread_dec)]]

\* np.exp(x) for a rational x of modulus at most 1, as a fixed-point number of
\* 100000ths: the Taylor series, each term rounded down
RECURSIVE ExpTerms(_, _, _)
ExpTerms(term, x, k) ==
    IF term = 0 \/ k > 12 THEN 0
    ELSE term + ExpTerms((term * x[1]) \div (x[2] * k), x, k + 1)

exp(x) == ExpTerms(100000, x, 1)

\* line 315 giving the survival probability exp(-lambda t) (a faulty variant of PD)
PD_survival(lambda, t) ==
    LET e == exp(RMul(lambda, RInt(t)))
    IN  Rat(100000, e)

\* line 315: 1.0 - np.exp(-lambda * t), with exp(-x) taken as 1 / exp(x)
PD(lambda, t) ==
    LET e == exp(RMul(lambda, RInt(t)))
    IN  Rat(e - 100000, e)

\* lines 321-332
result_record(row) ==
    [issuer |-> row.issuer,
     n_bonds |-> row.n_bonds,
     avg_spread_bps |-> Round(RMul(row.avg_spread_dec, RInt(10000)), 1),
     avg_years |-> Round(row.avg_years, 1),
     pd_1y |-> Round(RMul(PD(row.lambda, 1), RInt(100)), 2),
     pd_3y |-> Round(RMul(PD(row.lambda, 3), RInt(100)), 2),
     pd_5y |-> Round(RMul(PD(row.lambda, 5), RInt(100)), 2),
     pd_10y |-> Round(RMul(PD(row.lambda, 10), RInt(100)), 2)]

\* the place of x in a list kept descending by pd_5y: after the records that
\* are not below it
RECURSIVE InsertDescending(_, _)
InsertDescending(sorted, x) ==
    IF sorted = <<>> THEN <<x>>
    ELSE IF RLt(sorted[1].pd_5y, x.pd_5y) THEN <<x>> \o sorted
    ELSE <<sorted[1]>> \o InsertDescending(Tail(sorted), x)

RECURSIVE SortDescending(_, _)
SortDescending(done, rest) ==
    IF rest = <<>> THEN done
    ELSE SortDescending(InsertDescending(done, rest[1]), Tail(rest))

Reverse(xs) == [i \in 1..Len(xs) |-> xs[Len(xs) + 1 - i]]

\* line 335 as an ascending sort read backwards, sorted(...)[::-1], which turns
\* the order of equal records around (a faulty variant of sort_by_pd_5y)
sort_by_pd_5y_reversed(results) == SortDescending(<<>>, Reverse(results))

\* line 335: results.sort(key=pd_5y, reverse=True), a stable sort
sort_by_pd_5y(results) == SortDescending(<<>>, results)

\* what a call returns: the list, and as `frame` the locals at the return
Returned(results, curve, corp, stats) ==
    [kind |-> "list", results |-> results,
     frame |-> [gov_curve |-> curve, corp |-> corp, issuer_stats |-> stats]]

\* lines 176-337; csv.readable: pd.read_csv succeeds, csv.columns: df.shape[1]
calculate_default_probabilities(csv) ==
    IF ~csv.readable THEN Returned(<<>>, <<>>, <<>>, <<>>)
    ELSE IF csv.columns < 7 THEN Returned(<<>>, <<>>, <<>>, <<>>)
    ELSE
        LET df == Preprocess(csv.rows)
            gov == SelectSeq(df, gov_mask)
        IN  IF gov = <<>> THEN Returned(<<>>, <<>>, <<>>, <<>>)
            ELSE
                LET curve == gov_curve(gov)
                    selected == SelectSeq(df, corp_mask)
                IN  IF NotEnoughPoints(curve) THEN Returned(<<>>, curve, <<>>, <<>>)
                    ELSE IF selected = <<>> THEN Returned(<<>>, curve, <<>>, <<>>)
                    ELSE
                        LET corp == WithSpread(selected, curve)
                            stats == issuer_stats(corp)
                            results == [i \in 1..Len(stats) |-> result_record(stats[i])]
                        IN  Returned(sort_by_pd_5y(results), curve, corp, stats)

\* line 106: the government rows with years_to_maturity rounded to 3 decimals
T_bucket(gov) ==
    [i \in 1..Len(gov) |->
        [gov[i] EXCEPT !.years_to_maturity = Fin(Round(gov[i].years_to_maturity.v, 3))]]

\* lines 120-131: the converter of extract_jgb_curve
jgb_tenor_to_years(tenor) ==
    LET t == StripLeading(StripTrailing(Upper(tenor), Whitespace), Whitespace)
        conv(c, per) ==
            LET p == ParseNumber(Remove(t, c))
            IN  [exc |-> p.exc, v |-> Rat(p.v, per)]
    IN  IF Contains(t, "D") THEN conv("D", 365)
        ELSE IF Contains(t, "W") THEN conv("W", 52)
        ELSE IF Contains(t, "M") THEN conv("M", 12)
        ELSE IF Contains(t, "Y") THEN conv("Y", 1)
        ELSE [exc |-> "none", v |-> RInt(0)]

Tenor(label, years) == [tenor |-> label, years |-> years]

\* lines 138-158: the fallback list of tenors
StandardTenors ==
    <<Tenor(<<"1", "D">>, Rat(1, 365)), Tenor(<<"1", "W">>, Rat(7, 365)),
      Tenor(<<"2", "W">>, Rat(14, 365)), Tenor(<<"1", "M">>, Rat(1, 12)),
      Tenor(<<"2", "M">>, Rat(2, 12)), Tenor(<<"3", "M">>, Rat(3, 12)),
      Tenor(<<"6", "M">>, Rat(6, 12)), Tenor(<<"9", "M">>, Rat(9, 12)),
      Tenor(<<"1", "Y">>, RInt(1)), Tenor(<<"2", "Y">>, RInt(2)),
      Tenor(<<"3", "Y">>, RInt(3)), Tenor(<<"4", "Y">>, RInt(4)),
      Tenor(<<"5", "Y">>, RInt(5)), Tenor(<<"7", "Y">>, RInt(7)),
      Tenor(<<"1", "0", "Y">>, RInt(10)), Tenor(<<"1", "5", "Y">>, RInt(15)),
      Tenor(<<"2", "0", "Y">>, RInt(20)), Tenor(<<"3", "0", "Y">>, RInt(30)),
      Tenor(<<"4", "0", "Y">>, RInt(40))>>

\* line 164 with the range test left out (a faulty variant of InRange)
InRange_unfiltered(x, curve) == TRUE

\* line 164: T_points.min() <= tenor_years <= T_points.max()
InRange(x, curve) == RLe(curve[1].T, x) /\ RLe(x, curve[Len(curve)].T)

\* what a call of extract_jgb_curve returns: the list, and as `frame` the locals
\* at the return
JgbReturned(result, curve, tenor_list) ==
    [kind |-> "list", result |-> result,
     frame |-> [gov_curve |-> curve, tenor_list |-> tenor_list]]

\* lines 43-173; target_tenors is <<>> for None and for the empty list
extract_jgb_curve(csv, target_tenors) ==
    IF ~csv.readable THEN JgbReturned(<<>>, <<>>, <<>>)
    ELSE IF csv.columns < 7 THEN JgbReturned(<<>>, <<>>, <<>>)
    ELSE
        LET df == Preprocess(csv.rows)
            gov == SelectSeq(df, gov_mask)
        IN  IF gov = <<>> THEN JgbReturned(<<>>, <<>>, <<>>)
            ELSE
                LET curve == gov_curve(T_bucket(gov))
                    converted == [i \in 1..Len(target_tenors) |->
                                     jgb_tenor_to_years(target_tenors[i])]
                    tenor_list ==
                        IF target_tenors # <<>>
                        THEN [i \in 1..Len(target_tenors) |->
                                 Tenor(target_tenors[i], converted[i].v)]
                        ELSE StandardTenors
                    in_range(t) == InRange(t.years, curve)
                    kept == SelectSeq(tenor_list, in_range)
                IN  IF Len(curve) < 2 THEN JgbReturned(<<>>, curve, <<>>)
                    ELSE IF \E i \in 1..Len(target_tenors) : converted[i].exc # "none"
                    THEN Raise("ValueError")
                    ELSE JgbReturned([i \in 1..Len(kept) |->
                                         [tenor |-> kept[i].tenor,
                                          rate |-> Round(interp(kept[i].years, curve), 3)]],
                                     curve, tenor_list)

----------------------------------------------------------------------------
(* The snapshots and clock readings the model draws from *)

\* the quotes a snapshot's `rates` list is made of (tenor label, rate in percent)
Quote(tenor, hundredths) == [tenor |-> tenor, rate |-> Rat(hundredths, 100)]

RatePoints ==
    {Quote(<<"1", "D">>, 50), Quote(<<"1", "D">>, 60), Quote(<<"1", "W">>, 55),
     Quote(<<"3", "M">>, 50), Quote(<<"3", "M">>, 55), Quote(<<"1", "Y">>, 60),
     Quote(<<"O", "N">>, 55), Quote(<<"1", "D", "W">>, 55)}

RateLists == UNION {[1..n -> RatePoints] : n \in 0..MaxRates}

\* the quote date of the snapshots that carry one
QuoteDate == Date(2024, 1, 31)

\* meeting dates: before the quote date, on the quote date, 60 days out, one day
\* short of the 3M point, on the 3M point (90 days out), beyond the 1Y point,
\* and a string that is no date
MeetingDates ==
    {Date(2024, 1, 10), Date(2024, 1, 31), Date(2024, 3, 31), Date(2024, 4, 29), Date(2024, 4, 30),
     Date(2025, 6, 1), Unparseable}

\* the clock readings datetime.now() can give
Clock == {DateTime(Date(2024, 2, 15), TRUE)}

Snapshot(keys, rates, meetings, source) ==
    [keys |-> keys, rates |-> rates, boj_meetings |-> meetings, source_date |-> source]

\* the snapshots: empty, without `rates`, without `boj_meetings`, with no
\* meeting, with one meeting, and without a quote date
IsSnapshot(d) ==
    \/ d = Snapshot({}, <<>>, <<>>, Unparseable)
    \/ d = Snapshot({"boj_meetings", "source_date"}, <<>>, <<Date(2024, 3, 31)>>, QuoteDate)
    \/ \E r \in RateLists :
        \/ d = Snapshot({"rates", "source_date"}, r, <<>>, QuoteDate)
        \/ d = Snapshot({"rates", "boj_meetings", "source_date"}, r, <<>>, QuoteDate)
        \/ \E m \in MeetingDates :
            d = Snapshot({"rates", "boj_meetings", "source_date"}, r, <<m>>, QuoteDate)
        \/ d = Snapshot({"rates", "boj_meetings"}, r, <<Date(2024, 3, 31)>>, Unparseable)

\* the bond tables: every row is traded on the same day
TradeDate == Date(2024, 1, 31)

Bond(name, category, maturity, yield) ==
    [name |-> name, category |-> category, trade_date |-> TradeDate,
     maturity |-> maturity, yield |-> yield]

Percent(hundredths) == Fin(Rat(hundredths, 100))

\* government bonds maturing in 0, 1, 3 and 5 years and one whose maturity is
\* no date; corporate bonds of issuers A, B and C maturing in 2 and 3 years, one
\* of them quoted with the 999.999 sentinel, and one that matured a year before
\* the trade date
Listing ==
    <<Bond(<<"<koku>", "<sai>", "1">>, 10, Date(2024, 1, 31), Percent(5)),
      Bond(<<"<koku>", "<sai>", "2">>, 10, Date(2025, 1, 30), Percent(10)),
      Bond(<<"<koku>", "<sai>", "3">>, 10, Date(2029, 1, 29), Percent(50)),
      Bond(<<"A", " ", "1">>, 40, Date(2027, 1, 30), Percent(100)),
      Bond(<<"A", " ", "2">>, 40, Date(2026, 1, 30), Percent(10)),
      Bond(<<"B", "1">>, 40, Date(2027, 1, 30), Percent(20)),
      Bond(<<"C", "<retsu>", "3">>, 40, Date(2027, 1, 30), Percent(100)),
      Bond(<<"B", "2">>, 40, Date(2027, 1, 30), Fin(Rat(999999, 1000))),
      Bond(<<"<koku>", "<sai>", "4">>, 10, Date(2027, 1, 30), Percent(40)),
      Bond(<<"<koku>", "<sai>", "5">>, 10, Unparseable, Percent(10)),
      Bond(<<"C", "4">>, 40, Date(2023, 1, 31), Percent(100))>>

Bonds == {Listing[k] : k \in 1..Len(Listing)}

Csv(readable, columns, rows) == [readable |-> readable, columns |-> columns, rows |-> rows]

\* the tables of n rows, the rows in the order of the listing: no step of
\* either function depends on the order of the rows of the file
Tables(n) ==
    {[i \in 1..n |-> Listing[at[i]]] :
        at \in {f \in [1..n -> 1..Len(Listing)] : \A i \in 1..(n - 1) : f[i] <= f[i + 1]}}

\* the files: unreadable, too narrow, and tables of 1..MaxBonds rows
IsBondTable(csv) ==
    \/ csv = Csv(FALSE, 0, <<>>)
    \/ \E b \in Bonds : csv = Csv(TRUE, 6, <<b>>)
    \/ \E n \in 1..MaxBonds : \E rows \in Tables(n) : csv = Csv(TRUE, 7, rows)

\* the target_tenors arguments: None, and a list of four labels
TargetTenors ==
    {<<>>, <<<<"6", "M">>, <<"2", "Y">>, <<" ", "3", "y">>, <<"1", "0", "Y">>>>}

Pending == [kind |-> "pending"]

----------------------------------------------------------------------------
(* The state machine: a snapshot is loaded, then one entry point is called *)

Init ==
    /\ pc = "start"
    /\ IsSnapshot(data_json)
    /\ processed = Pending
    /\ rate_probabilities = Pending
    /\ bond_table = <<>>
    /\ credit_data = Pending
    /\ jgb_curve = Pending

\* a call of process_market_data on the loaded snapshot
ProcessMarketData ==
    /\ pc = "start"
    /\ \E now \in Clock :
        \E df \in YearsFrames(data_json) :
            \E days_df \in DaysFrames(data_json, now) :
                processed' = process_market_data(data_json, now, df, days_df)
    /\ pc' = "processed"
    /\ UNCHANGED <<data_json, rate_probabilities, bond_table, credit_data, jgb_curve>>

\* a call of calculate_rate_probabilities on the loaded snapshot
CalculateRateProbabilities ==
    /\ pc = "start"
    /\ \E now \in Clock :
        \E df \in DaysFrames(data_json, now) :
            rate_probabilities' = calculate_rate_probabilities(data_json, now, df)
    /\ pc' = "estimated"
    /\ UNCHANGED <<data_json, processed, bond_table, credit_data, jgb_curve>>

Next == ProcessMarketData \/ CalculateRateProbabilities

Spec == Init /\ [][Next]_vars

\* the credit entry point, called on a bond table
InitCredit ==
    /\ pc = "start"
    /\ data_json = Snapshot({}, <<>>, <<>>, Unparseable)
    /\ processed = Pending
    /\ rate_probabilities = Pending
    /\ IsBondTable(bond_table)
    /\ credit_data = Pending
    /\ jgb_curve = Pending

\* a call of calculate_default_probabilities on the table
CalculateDefaultProbabilities ==
    /\ pc = "start"
    /\ credit_data' = calculate_default_probabilities(bond_table)
    /\ pc' = "credit"
    /\ UNCHANGED <<data_json, processed, rate_probabilities, bond_table, jgb_curve>>

\* a call of extract_jgb_curve on the table
ExtractJgbCurve ==
    /\ jgb_curve = Pending
    /\ \E target_tenors \in TargetTenors :
        jgb_curve' = extract_jgb_curve(bond_table, target_tenors)
    /\ UNCHANGED <<pc, data_json, processed, rate_probabilities, bond_table, credit_data>>

NextCredit == CalculateDefaultProbabilities \/ ExtractJgbCurve

SpecCredit == InitCredit /\ [][NextCredit]_vars

----------------------------------------------------------------------------
(* Vocabulary of the properties *)

UnitChars == {"D", "W", "M", "Y"}

\* the label matches <integer><one unit in D, W, M, Y>
WellFormed(tenor) ==
    /\ Len(tenor) >= 2
    /\ tenor[Len(tenor)] \in UnitChars
    /\ \A i \in 1..(Len(tenor) - 1) : tenor[i] \in DigitChars

\* the snapshot carries a non-empty list of well-formed quotes
WellFormedRates(d) ==
    /\ "rates" \in d.keys
    /\ d.rates # <<>>
    /\ \A i \in 1..Len(d.rates) : WellFormed(d.rates[i].tenor)

\* the snapshot names a next meeting that is a date
HasMeeting(d) ==
    /\ "boj_meetings" \in d.keys
    /\ d.boj_meetings # <<>>
    /\ Parses(d.boj_meetings[1])

\* days from the source date to the next meeting, per lines 55-59
DaysToMeeting(d, now) ==
    DeltaDays(DateTime(d.boj_meetings[1], FALSE), SourceDate(d, now))

\* the next meeting lies beyond every point of the curve
MeetingBeyondCurve(d) ==
    /\ WellFormedRates(d)
    /\ HasMeeting(d)
    /\ \A now \in Clock : \A i \in 1..Len(d.rates) :
        DaysColumn(d, now)[i].v < DaysToMeeting(d, now)

\* the first curve point at or after the meeting lies exactly on it
PostPointOnMeeting(d) ==
    /\ WellFormedRates(d)
    /\ HasMeeting(d)
    /\ \A now \in Clock : \E i \in 1..Len(d.rates) :
        DaysColumn(d, now)[i].v = DaysToMeeting(d, now)

\* the probability records the calls have returned
ReturnedRecords ==
    {r \in {rate_probabilities}
            \cup (IF processed.kind = "dict" THEN {processed.rate_probabilities} ELSE {}) :
        r.kind = "dict"}

----------------------------------------------------------------------------
(* Properties *)

\* C1: when no curve point has a day count >= days_to_meeting,
\* process_market_data returns the combined result with `curve` populated and
\* `rate_probabilities` null, and no exception escapes.
C1_BeyondCurveIsLocalFailure ==
    (pc = "processed" /\ MeetingBeyondCurve(data_json)) =>
        /\ processed.kind = "dict"
        /\ Len(processed.curve) = Len(data_json.rates)
        /\ processed.rate_probabilities = None

\* C2: for a snapshot whose `rates` is present and empty, process_market_data
\* returns None, whatever `boj_meetings` holds.
C2_EmptyRatesIsUnavailable ==
    (pc = "processed" /\ "rates" \in data_json.keys /\ data_json.rates = <<>>) =>
        processed = None

\* C3: for a non-empty `rates` list of well-formed tenors and an empty
\* `boj_meetings` list, process_market_data returns a result whose
\* `rate_probabilities` is null and whose `curve` has one entry per rate point.
C3_NoMeetingsKeepsCurve ==
    (/\ pc = "processed"
     /\ WellFormedRates(data_json)
     /\ "boj_meetings" \in data_json.keys
     /\ data_json.boj_meetings = <<>>) =>
        /\ processed.kind = "dict"
        /\ processed.rate_probabilities = None
        /\ Len(processed.curve) = Len(data_json.rates)
        /\ \A i \in 1..Len(data_json.rates) :
            \E j \in 1..Len(processed.curve) :
                /\ processed.curve[j].tenor = data_json.rates[i].tenor
                /\ processed.curve[j].rate = data_json.rates[i].rate

C3_Witness ==
    /\ pc = "processed"
    /\ WellFormedRates(data_json)
    /\ Len(data_json.rates) = 3
    /\ "boj_meetings" \in data_json.keys
    /\ data_json.boj_meetings = <<>>
    /\ processed.kind = "dict"
    /\ processed.rate_probabilities = None
    /\ Len(processed.curve) = 3

\* C4: when the selected post-meeting point has a day count equal to
\* days_to_meeting, no probability record is produced: a direct call returns no
\* record and process_market_data returns `rate_probabilities` null.
C4_DegenerateHorizonIsFailure ==
    PostPointOnMeeting(data_json) =>
        /\ pc = "estimated" => rate_probabilities.kind # "dict"
        /\ pc = "processed" =>
            (processed.kind = "dict" /\ processed.rate_probabilities = None)

\* C5: in every probability record returned, the rounded no_change + hike_25bps
\* + cut_25bps lies in [99.9, 100.1].
C5_RoundedSumNear100 ==
    \A r \in ReturnedRecords :
        LET total == RAdd(RAdd(r.probabilities.no_change, r.probabilities.hike_25bps),
                          r.probabilities.cut_25bps)
        IN  RLe(Rat(999, 10), total) /\ RLe(total, Rat(1001, 10))

\* a record whose hike probability is strictly between 0 and 100 and is changed
\* by the rounding, and one whose hike probability is capped
C5_Witness ==
    /\ pc = "estimated"
    /\ rate_probabilities.kind = "dict"
    /\ rate_probabilities.probabilities.hike_25bps # rate_probabilities.frame.prob_hike_25bps
    /\ RLt(RInt(0), rate_probabilities.probabilities.hike_25bps)
    /\ RLt(rate_probabilities.probabilities.no_change, RInt(100))

\* C6: with p = (implied_rate - current_rate) / 0.25: p > 0 gives hike =
\* min(100p, 100), no_change = 100 - hike, cut = 0; p < 0 gives cut =
\* min(100|p|, 100), no_change = 100 - cut, hike = 0; p = 0 gives no_change =
\* 100 and the others 0; every probability lies in [0, 100] and hike and cut
\* are never both non-zero.
C6_SignDecidesRegime ==
    \A r \in ReturnedRecords :
        LET f == r.frame
            p == f.probability_of_hike
            hike == f.prob_hike_25bps
            cut == f.prob_cut_25bps
            hold == f.prob_no_change
            zero == RInt(0)
            hundred == RInt(100)
        IN  /\ (f.implied_rate.fk = "fin") =>
                /\ p.fk = "fin"
                /\ p.v = RDiv(RSub(f.implied_rate.v, f.current_rate), Rat(1, 4))
                /\ RLt(zero, p.v) =>
                    /\ hike = RMin(RMul(RInt(100), p.v), hundred)
                    /\ hold = RSub(hundred, hike)
                    /\ cut = zero
                /\ RLt(p.v, zero) =>
                    /\ cut = RMin(RMul(RInt(100), RAbs(p.v)), hundred)
                    /\ hold = RSub(hundred, cut)
                    /\ hike = zero
                /\ p.v = zero => (hold = hundred /\ hike = zero /\ cut = zero)
            /\ \A x \in {hike, cut, hold} : RLe(zero, x) /\ RLe(x, hundred)
            /\ hike = zero \/ cut = zero

\* a record of the cut regime with a cut probability strictly inside (0, 100)
C6_Witness ==
    /\ pc = "estimated"
    /\ rate_probabilities.kind = "dict"
    /\ rate_probabilities.frame.probability_of_hike.fk = "fin"
    /\ RLt(rate_probabilities.frame.probability_of_hike.v, RInt(0))
    /\ RLt(RInt(0), rate_probabilities.frame.prob_cut_25bps)
    /\ RLt(rate_probabilities.frame.prob_cut_25bps, RInt(100))

\* the rows the call reads from the file
RowsRead(csv) ==
    IF csv.readable /\ csv.columns >= 7 THEN Preprocess(csv.rows) ELSE <<>>

\* the distinct maturities of the government rows of the table
GovMaturities(csv) ==
    {RowsRead(csv)[i].years_to_maturity.v :
        i \in {k \in 1..Len(RowsRead(csv)) : gov_mask(RowsRead(csv)[k])}}

\* the eligible corporate rows of the table
EligibleCorporates(csv) == {k \in 1..Len(RowsRead(csv)) : corp_mask(RowsRead(csv)[k])}

PDs(r) == <<r.pd_1y, r.pd_3y, r.pd_5y, r.pd_10y>>

\* C7: every issuer whose mean spread is negative or zero gets hazard rate 0 and
\* pd_1y = pd_3y = pd_5y = pd_10y = 0.00; no emitted PD is negative.
C7_NonPositiveSpreadGivesZeroPD ==
    pc = "credit" =>
        LET stats == credit_data.frame.issuer_stats
            results == credit_data.results
        IN  /\ \A k \in 1..Len(stats) :
                RLe(stats[k].avg_spread_dec, RInt(0)) =>
                    /\ stats[k].lambda = RInt(0)
                    /\ \E i \in 1..Len(results) :
                        /\ results[i].issuer = stats[k].issuer
                        /\ \A h \in 1..4 : PDs(results[i])[h] = RInt(0)
            /\ \A i \in 1..Len(results) :
                \A h \in 1..4 : RLe(RInt(0), PDs(results[i])[h])

\* an issuer with a negative mean spread beside one with a positive PD
C7_Witness ==
    /\ pc = "credit"
    /\ \E k \in 1..Len(credit_data.frame.issuer_stats) :
        RLt(credit_data.frame.issuer_stats[k].avg_spread_dec, RInt(0))
    /\ \E i \in 1..Len(credit_data.results) :
        RLt(RInt(0), credit_data.results[i].pd_1y)

\* C8: in every emitted record pd_1y <= pd_3y <= pd_5y <= pd_10y, and each lies
\* in [0, 100] percent.
C8_PDMonotoneInHorizon ==
    pc = "credit" =>
        \A i \in 1..Len(credit_data.results) :
            LET r == credit_data.results[i]
            IN  /\ RLe(r.pd_1y, r.pd_3y)
                /\ RLe(r.pd_3y, r.pd_5y)
                /\ RLe(r.pd_5y, r.pd_10y)
                /\ \A h \in 1..4 : RLe(RInt(0), PDs(r)[h]) /\ RLe(PDs(r)[h], RInt(100))

\* a record whose PDs rise strictly with the horizon
C8_Witness ==
    /\ pc = "credit"
    /\ \E i \in 1..Len(credit_data.results) :
        LET r == credit_data.results[i]
        IN  /\ RLt(RInt(0), r.pd_1y)
            /\ RLt(r.pd_1y, r.pd_3y)
            /\ RLt(r.pd_3y, r.pd_5y)
            /\ RLt(r.pd_5y, r.pd_10y)

\* C9: a table with fewer than 2 distinct government maturities, or with no
\* eligible corporate bond, gives the empty list and no exception.
C9_InsufficientDataGivesEmptyList ==
    (/\ pc = "credit"
     /\ Cardinality(GovMaturities(bond_table)) < 2
        \/ EligibleCorporates(bond_table) = {}) =>
        (credit_data.kind = "list" /\ credit_data.results = <<>>)

\* one government maturity and an eligible corporate bond: the empty list
C9_Witness ==
    /\ pc = "credit"
    /\ Cardinality(GovMaturities(bond_table)) = 1
    /\ EligibleCorporates(bond_table) # {}
    /\ credit_data.kind = "list"
    /\ credit_data.results = <<>>

\* the place of an issuer in the issuer grouping
GroupIndex(issuer) ==
    CHOOSE k \in 1..Len(credit_data.frame.issuer_stats) :
        credit_data.frame.issuer_stats[k].issuer = issuer

\* C10: the returned list is ordered by non-increasing pd_5y, issuers of equal
\* pd_5y in the order of the issuer grouping; it holds one record per issuer.
C10_SortedByPD5Stable ==
    pc = "credit" =>
        LET results == credit_data.results
        IN  /\ Len(results) = Len(credit_data.frame.issuer_stats)
            /\ \A i, j \in 1..Len(results) :
                i < j =>
                    /\ RLe(results[j].pd_5y, results[i].pd_5y)
                    /\ results[i].pd_5y = results[j].pd_5y =>
                        GroupIndex(results[i].issuer) < GroupIndex(results[j].issuer)

\* two issuers of equal, positive pd_5y
C10_Witness ==
    /\ pc = "credit"
    /\ Len(credit_data.results) = 2
    /\ credit_data.results[1].pd_5y = credit_data.results[2].pd_5y
    /\ RLt(RInt(0), credit_data.results[1].pd_5y)
    /\ credit_data.results[1].issuer # credit_data.results[2].issuer

\* the sort moved a record: the first issuer of the grouping is returned last
C10_WitnessReordered ==
    /\ pc = "credit"
    /\ Len(credit_data.results) = 2
    /\ GroupIndex(credit_data.results[1].issuer) = 2
    /\ RLt(credit_data.results[2].pd_5y, credit_data.results[1].pd_5y)

\* the rows of the curve are the quotes of the list, each taken once
IsPermutationOf(curve, rates) ==
    /\ Len(curve) = Len(rates)
    /\ \E p \in [1..Len(rates) -> 1..Len(rates)] :
        /\ \A i, j \in 1..Len(rates) : i # j => p[i] # p[j]
        /\ \A i \in 1..Len(rates) :
            /\ curve[i].tenor = rates[p[i]].tenor
            /\ curve[i].rate = rates[p[i]].rate

\* C11: for a list of quotes with well-formed tenors, the `curve` that
\* process_market_data returns is a permutation of the list (each quote once,
\* tenor and rate unchanged), each row carrying the years of its tenor, and the
\* years are non-decreasing from the first row to the last.
C11_CurveIsSortedPermutation ==
    (pc = "processed" /\ WellFormedRates(data_json) /\ processed.kind = "dict") =>
        LET curve == processed.curve
        IN  /\ IsPermutationOf(curve, data_json.rates)
            /\ \A i \in 1..Len(curve) :
                curve[i].years = tenor_to_years(curve[i].tenor).v
            /\ \A i \in 1..(Len(curve) - 1) : RLe(curve[i].years, curve[i + 1].years)

\* three quotes of distinct tenors listed longest first, returned shortest first
C11_Witness ==
    /\ pc = "processed"
    /\ WellFormedRates(data_json)
    /\ processed.kind = "dict"
    /\ Len(data_json.rates) = 3
    /\ RLt(tenor_to_years(data_json.rates[3].tenor).v,
           tenor_to_years(data_json.rates[2].tenor).v)
    /\ RLt(tenor_to_years(data_json.rates[2].tenor).v,
           tenor_to_years(data_json.rates[1].tenor).v)
    /\ processed.curve[1].tenor = data_json.rates[3].tenor
    /\ processed.curve[3].tenor = data_json.rates[1].tenor

\* the snapshot's meeting list is absent, empty, or starts with a date
MeetingReadable(d) ==
    "boj_meetings" \in d.keys /\ d.boj_meetings # <<>> => Parses(d.boj_meetings[1])

\* the label converts to duration 0 in both converters
ConvertsToZero(tenor, d) ==
    /\ tenor_to_years(tenor) = [exc |-> "none", v |-> RInt(0)]
    /\ \A now \in Clock :
        tenor_to_days(tenor, SourceDate(d, now)) = [exc |-> "none", v |-> 0]

\* C12: every tenor label that does not match <integer><one unit in D, W, M, Y>
\* is converted to duration 0 by tenor_to_years and by tenor_to_days and its row
\* is at the front of the curve (only rows of years 0 come before it); no such
\* label makes process_market_data or calculate_rate_probabilities raise.
C12_MalformedLabelIsZero ==
    (pc # "start" /\ "rates" \in data_json.keys /\ MeetingReadable(data_json)) =>
        /\ \A i \in 1..Len(data_json.rates) :
            ~WellFormed(data_json.rates[i].tenor) =>
                ConvertsToZero(data_json.rates[i].tenor, data_json)
        /\ (pc = "processed" /\ processed.kind = "dict") =>
            \A j \in 1..Len(processed.curve) :
                ~WellFormed(processed.curve[j].tenor) =>
                    \A i \in 1..j : processed.curve[i].years = RInt(0)
        /\ pc = "processed" => processed # Raise("ValueError")
        /\ pc = "estimated" => rate_probabilities # Raise("ValueError")

\* the part of C12 that the code keeps: a label with no unit letter in it is
\* converted to 0, its row is at the front of the curve, and no call raises
\* ValueError when every malformed label of the list is of that kind
C12_NoUnitLetterIsZero ==
    (/\ pc # "start"
     /\ "rates" \in data_json.keys
     /\ MeetingReadable(data_json)
     /\ \A i \in 1..Len(data_json.rates) :
         LET tenor == data_json.rates[i].tenor
         IN  ~WellFormed(tenor) => \A k \in 1..Len(tenor) : tenor[k] \notin UnitChars) =>
        /\ \A i \in 1..Len(data_json.rates) :
            ~WellFormed(data_json.rates[i].tenor) =>
                ConvertsToZero(data_json.rates[i].tenor, data_json)
        /\ (pc = "processed" /\ processed.kind = "dict") =>
            \A j \in 1..Len(processed.curve) :
                ~WellFormed(processed.curve[j].tenor) =>
                    \A i \in 1..j : processed.curve[i].years = RInt(0)
        /\ pc = "processed" => processed # Raise("ValueError")
        /\ pc = "estimated" => rate_probabilities # Raise("ValueError")

\* C13: a bond record with a missing trade or maturity date, or with
\* non-positive years to maturity, is no point of the government curve and no
\* corporate record of the issuer aggregation: every point of the curve and
\* every aggregated corporate row lies at a positive maturity.
C13_ExcludedRecordsTakeNoPart ==
    pc = "credit" =>
        /\ \A k \in 1..Len(credit_data.frame.gov_curve) :
            RLt(RInt(0), credit_data.frame.gov_curve[k].T)
        /\ \A k \in 1..Len(credit_data.frame.corp) :
            RLt(RInt(0), credit_data.frame.corp[k].years_to_maturity)

\* a government bond maturing on the trade date supplies one of the two points
\* of the curve, and the call returns a record priced against that curve
C13_MaturedBondShapesOutput ==
    /\ pc = "credit"
    /\ Len(credit_data.frame.gov_curve) = 2
    /\ credit_data.frame.gov_curve[1].T = RInt(0)
    /\ credit_data.results # <<>>

\* the part of C13 that the code keeps: rows with a missing date are no point
\* of the curve, and rows with a missing date or non-positive years to maturity
\* are no corporate record
C13_MissingDateTakesNoPart ==
    pc = "credit" =>
        LET rows == RowsRead(bond_table)
            dated(row) == row.years_to_maturity.fk = "fin"
            live(row) == dated(row) /\ RLt(RInt(0), row.years_to_maturity.v)
            gov_dated(row) == gov_mask(row) /\ dated(row)
            corp_live(row) == corp_mask(row) /\ live(row)
        IN  /\ credit_data.frame.gov_curve # <<>> =>
                credit_data.frame.gov_curve = gov_curve(SelectSeq(rows, gov_dated))
            /\ Len(credit_data.frame.corp) \in {0, Len(SelectSeq(rows, corp_live))}
            /\ \A k \in 1..Len(credit_data.frame.corp) :
                RLt(RInt(0), credit_data.frame.corp[k].years_to_maturity)

\* the listed tenor lies within the maturities of the curve
WithinCurve(t, curve) == RLe(curve[1].T, t.years) /\ RLe(t.years, curve[Len(curve)].T)

\* C14: extract_jgb_curve emits a point for a listed tenor exactly when its
\* years lie within [min, max] of the government maturities, the rate lying
\* between the yields of the neighbouring curve points (nothing is
\* extrapolated); calculate_default_probabilities gives a corporate bond below
\* the minimum / above the maximum government maturity the yield of the first /
\* last curve point, and a bond whose maturity is a curve point that point's
\* yield.
C14_RangeFilterVersusClamp ==
    /\ (jgb_curve # Pending /\ jgb_curve.kind = "list") =>
        LET curve == jgb_curve.frame.gov_curve
            within(t) == WithinCurve(t, curve)
            kept == SelectSeq(jgb_curve.frame.tenor_list, within)
            result == jgb_curve.result
        IN  /\ Len(result) = Len(kept)
            /\ \A i \in 1..Len(result) :
                /\ result[i].tenor = kept[i].tenor
                /\ \E k \in 1..(Len(curve) - 1) :
                    /\ RLe(curve[k].T, kept[i].years)
                    /\ RLe(kept[i].years, curve[k + 1].T)
                    /\ RLe(Round(RMin(curve[k].y, curve[k + 1].y), 3), result[i].rate)
                    /\ RLe(result[i].rate, Round(RMax(curve[k].y, curve[k + 1].y), 3))
                /\ \A k \in 1..Len(curve) :
                    kept[i].years = curve[k].T => result[i].rate = Round(curve[k].y, 3)
    /\ pc = "credit" =>
        LET curve == credit_data.frame.gov_curve
            corp == credit_data.frame.corp
        IN  \A i \in 1..Len(corp) :
                /\ RLe(corp[i].years_to_maturity, curve[1].T) =>
                    corp[i].rf_yield = curve[1].y
                /\ RLe(curve[Len(curve)].T, corp[i].years_to_maturity) =>
                    corp[i].rf_yield = curve[Len(curve)].y
                /\ \A k \in 1..Len(curve) :
                    corp[i].years_to_maturity = curve[k].T => corp[i].rf_yield = curve[k].y

\* one file, both calls: the curve list drops tenors below and above the
\* government maturities and holds one strictly between them, while a corporate
\* bond maturing before the first government maturity takes the first yield and
\* one maturing on a curve point takes that point's yield
C14_Witness ==
    /\ pc = "credit"
    /\ jgb_curve # Pending
    /\ jgb_curve.kind = "list"
    /\ LET curve == jgb_curve.frame.gov_curve
           list == jgb_curve.frame.tenor_list
       IN  /\ Len(curve) >= 2
           /\ \E i \in 1..Len(list) : RLt(list[i].years, curve[1].T)
           /\ \E i \in 1..Len(list) : RLt(curve[Len(curve)].T, list[i].years)
           /\ \E i \in 1..Len(list) :
               /\ RLt(curve[1].T, list[i].years)
               /\ RLt(list[i].years, curve[Len(curve)].T)
               /\ \A k \in 1..Len(curve) : list[i].years # curve[k].T
           /\ Len(jgb_curve.result) \in 1..(Len(list) - 2)
    /\ LET curve == credit_data.frame.gov_curve
           corp == credit_data.frame.corp
       IN  /\ \E i \in 1..Len(corp) :
               /\ RLt(corp[i].years_to_maturity, curve[1].T)
               /\ corp[i].rf_yield = curve[1].y
           /\ \E i \in 1..Len(corp) :
               /\ corp[i].years_to_maturity = curve[1].T
               /\ corp[i].rf_yield = curve[1].y
               /\ curve[1].y # curve[2].y

\* a corporate bond maturing after the last government maturity takes the
\* last yield
C14_ClampedAbove ==
    /\ pc = "credit"
    /\ LET curve == credit_data.frame.gov_curve
           corp == credit_data.frame.corp
       IN  \E i \in 1..Len(corp) :
               /\ RLt(curve[Len(curve)].T, corp[i].years_to_maturity)
               /\ corp[i].rf_yield = curve[Len(curve)].y
               /\ curve[Len(curve)].y # curve[1].y

\* the row the estimator selects as post-meeting point (line 63), for a
\* returned record
PostPoint(r) ==
    LET at_or_after(row) == row.days >= r.days_to_meeting
    IN  SelectSeq(r.frame.df, at_or_after)[1]

\* C15: whenever the selected post-meeting point has a positive day count
\* strictly greater than days_to_meeting, the direction of the move is the sign
\* of (post-point rate - current rate): above gives hike_25bps > 0 and
\* cut_25bps = 0 before rounding, below gives cut_25bps > 0 and hike_25bps = 0,
\* equal gives no_change 100, hike and cut 0 in the returned probabilities.
C15_DirectionFollowsPostPoint ==
    \A r \in ReturnedRecords :
        LET post == PostPoint(r)
            f == r.frame
        IN  (post.days > 0 /\ post.days > r.days_to_meeting) =>
                /\ RLt(f.current_rate, post.rate) =>
                    (RLt(RInt(0), f.prob_hike_25bps) /\ f.prob_cut_25bps = RInt(0))
                /\ RLt(post.rate, f.current_rate) =>
                    (RLt(RInt(0), f.prob_cut_25bps) /\ f.prob_hike_25bps = RInt(0))
                /\ post.rate = f.current_rate =>
                    /\ f.prob_no_change = RInt(100)
                    /\ r.probabilities = [no_change |-> RInt(100),
                                           hike_25bps |-> RInt(0),
                                           cut_25bps |-> RInt(0)]

\* rates 1D = 0.50, 3M = 0.55, 1Y = 0.60 and a meeting 60 days after the quote
\* date: the 3M point is selected, hike > 0 and cut = 0
C15_Witness ==
    /\ pc = "estimated"
    /\ data_json.rates = <<Quote(<<"1", "D">>, 50), Quote(<<"3", "M">>, 55),
                           Quote(<<"1", "Y">>, 60)>>
    /\ rate_probabilities.kind = "dict"
    /\ rate_probabilities.days_to_meeting = 60
    /\ PostPoint(rate_probabilities).tenor = <<"3", "M">>
    /\ RLt(RInt(0), rate_probabilities.frame.prob_hike_25bps)
    /\ rate_probabilities.frame.prob_cut_25bps = RInt(0)
    /\ rate_probabilities.probabilities.cut_25bps = RInt(0)

\* the post-meeting point lies below the current rate: a cut
C15_WitnessCut ==
    /\ pc = "estimated"
    /\ rate_probabilities.kind = "dict"
    /\ PostPoint(rate_probabilities).days > rate_probabilities.days_to_meeting
    /\ rate_probabilities.days_to_meeting > 0
    /\ RLt(PostPoint(rate_probabilities).rate, rate_probabilities.frame.current_rate)
    /\ RLt(RInt(0), rate_probabilities.frame.prob_cut_25bps)

\* C16: a stale snapshot is not rejected: when days_to_meeting is zero or
\* negative and the first row of the sorted curve is the "1D" point, that row
\* is both the post-meeting point and the source of the current rate, the
\* implied rate equals the current rate, and the returned distribution is
\* no_change = 100.0, hike_25bps = 0.0, cut_25bps = 0.0, whatever the other
\* points of the curve are.
C16_StaleSnapshotGivesNoChange ==
    \A r \in ReturnedRecords :
        (r.days_to_meeting <= 0 /\ r.frame.df[1].tenor = <<"1", "D">>) =>
            /\ PostPoint(r) = r.frame.df[1]
            /\ r.frame.current_rate = r.frame.df[1].rate
            /\ r.frame.implied_rate = Fin(r.frame.current_rate)
            /\ r.implied_rate = Fin(r.current_rate)
            /\ r.probabilities = [no_change |-> RInt(100),
                                   hike_25bps |-> RInt(0),
                                   cut_25bps |-> RInt(0)]

\* a meeting 21 days before the quote date, the 1D point first, and two longer
\* points at other rates: no change
C16_Witness ==
    /\ pc = "estimated"
    /\ rate_probabilities.kind = "dict"
    /\ rate_probabilities.days_to_meeting < 0
    /\ Len(rate_probabilities.frame.df) = 3
    /\ rate_probabilities.frame.df[1].tenor = <<"1", "D">>
    /\ \A i \in 2..3 :
        /\ rate_probabilities.frame.df[i].days > 1
        /\ rate_probabilities.frame.df[i].rate # rate_probabilities.frame.df[1].rate
    /\ rate_probabilities.probabilities.no_change = RInt(100)

\* the same with the meeting on the quote date
C16_WitnessOnQuoteDate ==
    /\ pc = "processed"
    /\ processed.kind = "dict"
    /\ processed.rate_probabilities.kind = "dict"
    /\ processed.rate_probabilities.days_to_meeting = 0
    /\ processed.rate_probabilities.frame.df[1].tenor = <<"1", "D">>
    /\ Len(processed.rate_probabilities.frame.df) > 1
    /\ processed.rate_probabilities.probabilities.no_change = RInt(100)

====
